---------------------------- MODULE Spec2Model ----------------------------
(***************************************************************************)
(* typyPRISM core: System.createPRISM and the PRISM residual functional    *)
(* (PRISM.funk) with its driver (PRISM.solve).                             *)
(*                                                                         *)
(* Floating-point numbers are modelled as exact rationals <<num, den>> in  *)
(* lowest terms with a positive denominator, so that equalities the code   *)
(* guarantees only up to round-off are exact here.                         *)
(***************************************************************************)
EXTENDS Integers, Sequences, FiniteSets, TLC

(***************************************************************************)
(* Bounds of the model.                                                    *)
(***************************************************************************)
\* number of grid points of the Domain (domain.length)
Length == 2

(***************************************************************************)
(* Exact rational arithmetic (stand-in for numpy float64).                 *)
(***************************************************************************)
Abs(a) == IF a < 0 THEN -a ELSE a

RECURSIVE GCD(_, _)
GCD(a, b) == IF b = 0 THEN a ELSE GCD(b, a % b)

Reduce(n, d, g) == IF d < 0 THEN <<(-n) \div g, (-d) \div g>> ELSE <<n \div g, d \div g>>
Norm(n, d) == Reduce(n, d, GCD(Abs(n), Abs(d)))

RInt(i) == <<i, 1>>
RZero == RInt(0)
ROne == RInt(1)
RAdd(p, q) == Norm(p[1] * q[2] + q[1] * p[2], p[2] * q[2])
RSub(p, q) == Norm(p[1] * q[2] - q[1] * p[2], p[2] * q[2])
RMul(p, q) == Norm(p[1] * q[1], p[2] * q[2])
RNeg(p) == <<-p[1], p[2]>>
\* only used with q # 0
RDiv(p, q) == Norm(p[1] * q[2], p[2] * q[1])

(***************************************************************************)
(* Site types.  The model fixes two site types, as the System docstring    *)
(* example does.                                                           *)
(***************************************************************************)
types == <<"A", "B">>
rank == Len(types)
Idx == 1..rank
Grid == 1..Length
\* the unordered pairs, in the order the tables iterate them (i <= j)
iterpairs == <<<<1, 1>>, <<1, 2>>, <<2, 2>>>>
Pairs == {iterpairs[n] : n \in 1..Len(iterpairs)}

(***************************************************************************)
(* MatrixArray: data[n][i][j] over the grid, tagged Real or Fourier.       *)
(***************************************************************************)
ZeroData == [n \in Grid |-> [i \in Idx |-> [j \in Idx |-> RZero]]]
MatrixArray(space) == [data |-> ZeroData, space |-> space]
IdentityData == [n \in Grid |-> [i \in Idx |-> [j \in Idx |-> IF i = j THEN ROne ELSE RZero]]]
IdentityMatrixArray(space) == [data |-> IdentityData, space |-> space]

\* marray[i,j]: the length-N curve of entry (i,j)
GetCurve(m, i, j) == [n \in Grid |-> m.data[n][i][j]]
\* marray[i,j] = curve: writes entry (i,j) and its mirror (j,i)
SetCurve(m, i, j, c) ==
    [m EXCEPT !.data = [n \in Grid |->
        [a \in Idx |-> [b \in Idx |->
            IF (a = i /\ b = j) \/ (a = j /\ b = i) THEN c[n] ELSE m.data[n][a][b]]]]]

RECURSIVE DotSum(_, _, _)
DotSum(A, B, k) ==
    IF k = 0 THEN RZero ELSE RAdd(DotSum(A, B, k - 1), RMul(A[k], B[k]))

\* per-point rank x rank matrix product
PointMul(P, Q) ==
    [i \in Idx |-> [j \in Idx |-> DotSum(P[i], [k \in Idx |-> Q[k][j]], rank)]]
\* A @ B: both operands in the same space, the result inherits it
MatMul(A, B) == [data |-> [n \in Grid |-> PointMul(A.data[n], B.data[n])], space |-> A.space]
\* A - B, elementwise
MatSub(A, B) ==
    [data |-> [n \in Grid |-> [i \in Idx |-> [j \in Idx |->
                  RSub(A.data[n][i][j], B.data[n][i][j])]]],
     space |-> A.space]
\* A /= M for a fixed rank x rank matrix M (broadcast over the grid)
MatDivMatrix(A, M) ==
    [A EXCEPT !.data = [n \in Grid |-> [i \in Idx |-> [j \in Idx |->
                  RDiv(A.data[n][i][j], M[i][j])]]]]

Det(P) == RSub(RMul(P[1][1], P[2][2]), RMul(P[1][2], P[2][1]))
Singular(A) == \E n \in Grid : Det(A.data[n]) = RZero
Adjugate(P, d) ==
    <<<<RDiv(P[2][2], d), RDiv(RNeg(P[1][2]), d)>>,
      <<RDiv(RNeg(P[2][1]), d), RDiv(P[1][1], d)>>>>
PointInv(P) == Adjugate(P, Det(P))
\* invert(inplace=True) of a non-singular array
Invert(A) == [A EXCEPT !.data = [n \in Grid |-> PointInv(A.data[n])]]


(***************************************************************************)
(* Domain: the radial grid r[n] = n*dr and its conjugate grid k[n] = n*dk  *)
(* (dr = dk = 1), and the transform pair.  The kernel is a rational,       *)
(* invertible, linear stand-in for the discrete sine kernel: the forward   *)
(* transform is F[m] = (SUM_{n <= m} r[n]*f[n]) / k[m].                    *)
(***************************************************************************)
Domain == [dr |-> ROne, length |-> Length]
\* domain.r[n] and domain.k[n]
domain_r(n) == RInt(n)
domain_k(n) == RInt(n)

RECURSIVE PrefixSum(_, _)
PrefixSum(c, m) == IF m = 0 THEN RZero ELSE RAdd(PrefixSum(c, m - 1), RMul(domain_r(m), c[m]))

to_fourier(c) == [m \in Grid |-> RDiv(PrefixSum(c, m), domain_k(m))]
to_real(c) ==
    [n \in Grid |->
        RDiv(RSub(RMul(domain_k(n), c[n]),
                  IF n = 1 THEN RZero ELSE RMul(domain_k(n - 1), c[n - 1])),
             domain_r(n))]

\* the data whose entry curves are curves[i][j]
FromCurves(curves) == [n \in Grid |-> [i \in Idx |-> [j \in Idx |-> curves[i][j][n]]]]
TransformAll(m, f(_)) == FromCurves([i \in Idx |-> [j \in Idx |-> f(GetCurve(m, i, j))]])
\* in place, curve by curve; the caller has checked that m.space = "Real"
MatrixArray_to_fourier(m) == [data |-> TransformAll(m, to_fourier), space |-> "Fourier"]
\* in place, curve by curve; the caller has checked that m.space = "Fourier"
MatrixArray_to_real(m) == [data |-> TransformAll(m, to_real), space |-> "Real"]

(***************************************************************************)
(* Potentials and closures (pluggable strategy objects).                   *)
(*   potential object  [epsilon, sigma]: a shoulder of height epsilon for  *)
(*                     r < sigma, zero beyond it                           *)
(*   closure instance  [kind, potential]: potential is None until it is    *)
(*                     written, then Some(length-N curve)                  *)
(***************************************************************************)
None == <<>>
Some(v) == <<v>>
Val(o) == o[1]

Kinds == {"Atomic", "Molecular", "Other"}
ClosureIds == 1..3

\* U.calculate(domain.r)
U_calculate(U) == [n \in Grid |-> IF n < U.sigma THEN RInt(U.epsilon) ELSE RZero]
\* curve / kT
CurveDiv(c, kT) == [n \in Grid |-> RDiv(c[n], RInt(kT))]

\* AtomicClosure.calculate(gamma): pointwise in gamma and the stored potential
\* (Percus-Yevick shape with the Mayer function linearised, f = -U)
Atomic_calculate(c, gamma) ==
    [n \in Grid |-> RMul(RNeg(Val(c.potential)[n]), RAdd(ROne, gamma[n]))]
\* MolecularClosure.calculate(gamma, omega_ii, omega_jj)
CurveMul3(a, b, c) == [n \in Grid |-> RMul(RMul(a[n], b[n]), c[n])]
Molecular_calculate(c, gamma, wi, wj) == CurveMul3(wi, Atomic_calculate(c, gamma), wj)

(***************************************************************************)
(* System                                                                  *)
(***************************************************************************)
\* ValueTable.check / PairTable.check / Density.check: some entry is unset
TableUnset(t) == \E key \in DOMAIN t : t[key] = None

\* mutant: check with the omega table left out of the list
check_noOmega(s) ==
    \/ \E name \in {"density", "potential", "closure", "diameter"} : TableUnset(s[name])
    \/ s.domain = None

\* System.check: TRUE when it raises ValueError
check(s) ==
    \/ \E name \in {"density", "potential", "closure", "omega", "diameter"} :
          TableUnset(s[name])
    \/ s.domain = None

\* the potential pass of createPRISM from pair number n on: the closure heap
\* after it, and whether it raised NotImplementedError
RECURSIVE PotentialPass(_, _, _)
PotentialPass(s, h, n) ==
    IF n > Len(iterpairs) THEN [heap |-> h, raised |-> FALSE]
    ELSE LET t == iterpairs[n]
             U == Val(s.potential[t])
             c == Val(s.closure[t])
         IN  IF h[c].kind = "Atomic"
             THEN PotentialPass(s,
                      [h EXCEPT ![c].potential = Some(CurveDiv(U_calculate(U), s.kT))],
                      n + 1)
             ELSE IF h[c].kind = "Molecular"
             THEN [heap |-> h, raised |-> TRUE]
             ELSE PotentialPass(s, h, n + 1)

(***************************************************************************)
(* PRISM                                                                   *)
(***************************************************************************)
\* the parameters of PRISM.__init__ after self
PRISM_params ==
    <<"rank", "domain", "closure", "omega", "pairDensityMatrix", "siteDensityMatrix", "kT">>

ZeroVector == [f \in 1..(rank * rank * Length) |-> RZero]

\* PRISM(*args): None when the call raises TypeError (the positional arguments
\* do not match the parameters of __init__), else Some(instance)
PRISM_init(args) ==
    IF Len(args) # Len(PRISM_params) THEN None
    ELSE Some([kT                |-> args[7],
               rank              |-> args[1],
               domain            |-> args[2],
               closure           |-> args[3],
               omega             |-> args[4],
               x                 |-> ZeroVector,
               y                 |-> ZeroVector,
               directCorr        |-> MatrixArray("Real"),
               pairCorr          |-> MatrixArray("Real"),
               totalCorr         |-> MatrixArray("Fourier"),
               GammaIn           |-> MatrixArray("Real"),
               GammaOut          |-> MatrixArray("Real"),
               OC                |-> MatrixArray("Fourier"),
               IOC               |-> None,
               I                 |-> IdentityMatrixArray("Fourier"),
               pairDensityMatrix |-> args[5],
               siteDensityMatrix |-> args[6]])

\* System.createPRISM: the closure heap it leaves, how it ended, and the
\* instance it returned (None unless it returned)
createPRISM(s, h) ==
    IF check(s) THEN [heap |-> h, outcome |-> "ValueError", prism |-> None]
    ELSE LET pass == PotentialPass(s, h, 1)
             made == PRISM_init(<<s>>)
         IN  IF pass.raised
             THEN [heap |-> pass.heap, outcome |-> "NotImplementedError", prism |-> None]
             ELSE IF made = None
             THEN [heap |-> pass.heap, outcome |-> "TypeError", prism |-> None]
             ELSE [heap |-> pass.heap, outcome |-> "returned", prism |-> made]

\* x.reshape((-1, rank, rank))
Reshape(x) ==
    [n \in Grid |-> [i \in Idx |-> [j \in Idx |->
        x[(n - 1) * rank * rank + (i - 1) * rank + j]]]]
\* data.reshape((-1,))
Flatten(d) ==
    [f \in 1..(rank * rank * Length) |->
        d[((f - 1) \div (rank * rank)) + 1]
         [(((f - 1) % (rank * rank)) \div rank) + 1]
         [((f - 1) % rank) + 1]]

\* mutant: the input is not stored
\* self.x = x
StoreInput(p, x) == [p EXCEPT !.x = x]
\* self.GammaIn.data = np.copy(x.reshape((-1,rank,rank)))
CopyInput(p, x) == [p EXCEPT !.GammaIn.data = Reshape(x)]
\* self.GammaIn /= self.long_r
DivideByR(p) ==
    [p EXCEPT !.GammaIn.data = [n \in Grid |-> [i \in Idx |-> [j \in Idx |->
        RDiv(p.GammaIn.data[n][i][j], domain_r(n))]]]]
\* mutant: the space tag is not reset from the last call
ResetSpace_skip(p) == p
\* self.directCorr.space = Space.Real
ResetSpace(p) == [p EXCEPT !.directCorr.space = "Real"]

CurveAdd(a, b) == [n \in Grid |-> RAdd(a[n], b[n])]
\* mutant: directCorr[i,j] += closure.calculate(...) instead of =
AssignDirectCorr_accumulate(p, h, t) ==
    SetCurve(p.directCorr, t[1], t[2],
        CurveAdd(GetCurve(p.directCorr, t[1], t[2]),
                 IF h[p.closure[t]].kind = "Atomic"
                 THEN Atomic_calculate(h[p.closure[t]], GetCurve(p.GammaIn, t[1], t[2]))
                 ELSE Molecular_calculate(h[p.closure[t]], GetCurve(p.GammaIn, t[1], t[2]),
                          GetCurve(p.omega, t[1], t[1]), GetCurve(p.omega, t[2], t[2]))))

\* one pass of the closure loop over pair t: directCorr after the assignment
AssignDirectCorr(p, h, t) ==
    LET c == h[p.closure[t]]
        gamma == GetCurve(p.GammaIn, t[1], t[2])
    IN  IF c.kind = "Atomic"
        THEN SetCurve(p.directCorr, t[1], t[2], Atomic_calculate(c, gamma))
        ELSE SetCurve(p.directCorr, t[1], t[2],
                 Molecular_calculate(c, gamma, GetCurve(p.omega, t[1], t[1]),
                                     GetCurve(p.omega, t[2], t[2])))

\* the closure loop from pair number n on: the instance after it, whether it
\* raised ValueError, and how many times a closure was invoked
RECURSIVE ClosureLoop(_, _, _, _)
ClosureLoop(p, h, n, ncalc) ==
    IF n > Len(iterpairs) THEN [prism |-> p, raised |-> FALSE, ncalc |-> ncalc]
    ELSE LET t == iterpairs[n]
         IN  IF h[p.closure[t]].kind \in {"Atomic", "Molecular"}
             THEN ClosureLoop([p EXCEPT !.directCorr = AssignDirectCorr(p, h, t)],
                              h, n + 1, ncalc + 1)
             ELSE [prism |-> p, raised |-> TRUE, ncalc |-> ncalc]

\* self.domain.MatrixArray_to_fourier(self.directCorr)
ToFourier(p) == [p EXCEPT !.directCorr = MatrixArray_to_fourier(p.directCorr)]
\* self.OC = self.omega @ self.directCorr
SetOC(p) == [p EXCEPT !.OC = MatMul(p.omega, p.directCorr)]
\* self.IOC = self.I - self.OC
SetIOC(p) == [p EXCEPT !.IOC = Some(MatSub(p.I, p.OC))]
\* self.IOC.invert(inplace=True), for a non-singular IOC
InvertIOC(p) == [p EXCEPT !.IOC = Some(Invert(Val(p.IOC)))]
\* mutant: the trailing omega factor is missing
TotalCorrProduct_noOmega(IOC, OC, omega) == MatMul(IOC, OC)
\* mutant: the OC factor is missing
TotalCorrProduct_noOC(IOC, OC, omega) == MatMul(IOC, omega)
\* self.IOC @ self.OC @ self.omega
TotalCorrProduct(IOC, OC, omega) == MatMul(MatMul(IOC, OC), omega)
\* self.totalCorr = self.IOC @ self.OC @ self.omega
SetTotalCorr(p) == [p EXCEPT !.totalCorr = TotalCorrProduct(Val(p.IOC), p.OC, p.omega)]
\* self.totalCorr /= self.pairDensityMatrix
DivideByPairDensity(p) ==
    [p EXCEPT !.totalCorr = MatDivMatrix(p.totalCorr, p.pairDensityMatrix)]
\* self.GammaOut = self.totalCorr - self.directCorr
SetGammaOut(p) == [p EXCEPT !.GammaOut = MatSub(p.totalCorr, p.directCorr)]
\* self.domain.MatrixArray_to_real(self.GammaOut)
ToReal(p) == [p EXCEPT !.GammaOut = MatrixArray_to_real(p.GammaOut)]
\* self.long_r*(self.GammaOut.data - self.GammaIn.data)
Residual(p) ==
    Flatten([n \in Grid |-> [i \in Idx |-> [j \in Idx |->
        RMul(domain_r(n), RSub(p.GammaOut.data[n][i][j], p.GammaIn.data[n][i][j]))]]])
\* self.y = self.long_r*(self.GammaOut.data - self.GammaIn.data)
SetY(p) == [p EXCEPT !.y = Residual(p)]

\* a call that raises err: the instance as the call leaves it
Raise(p, err, tag, ncalc) ==
    [prism |-> p, ret |-> [status |-> err, value |-> <<>>, fwdTag |-> tag, ncalc |-> ncalc]]
\* return self.y.reshape((-1,))
Return(p, tag, ncalc) ==
    [prism |-> p, ret |-> [status |-> "ok", value |-> p.y, fwdTag |-> tag, ncalc |-> ncalc]]

\* funk from the inversion of IOC on (which raises for a singular matrix)
funkInvert(p, tag, ncalc) ==
    IF Singular(Val(p.IOC)) THEN Raise(p, "LinAlgError", tag, ncalc)
    ELSE Return(SetY(ToReal(SetGammaOut(DivideByPairDensity(SetTotalCorr(InvertIOC(p)))))),
                tag, ncalc)

\* funk from the forward transform on (which requires a Real-space field)
funkFourier(p, ncalc) ==
    IF p.directCorr.space # "Real" THEN Raise(p, "SpaceError", p.directCorr.space, ncalc)
    ELSE funkInvert(SetIOC(SetOC(ToFourier(p))), p.directCorr.space, ncalc)

\* funk after the closure loop
funkClosed(loop) ==
    IF loop.raised THEN Raise(loop.prism, "ValueError", "", loop.ncalc)
    ELSE funkFourier(loop.prism, loop.ncalc)

\* PRISM.funk(x) on instance p with closure heap h: the instance after the call
\* and what the call returned or raised
funk(p, h, x) ==
    funkClosed(ClosureLoop(ResetSpace(DivideByR(CopyInput(StoreInput(p, x), x))), h, 1, 0))

(***************************************************************************)
(* State                                                                   *)
(*   sys       the System: kT, domain and the five tables                  *)
(*   closures  the closure instances, by identity (several table entries   *)
(*             may hold the same instance)                                 *)
(*   outcome   how the last createPRISM call ended ("" before any)         *)
(*   prism     the PRISM instance (None while there is none)               *)
(*   arg       the vector passed to the last funk call                     *)
(*   ret       what the last funk call returned or raised: its status      *)
(*             ("ok" or the error), the residual it returned, the space    *)
(*             tag directCorr had when the call reached the forward        *)
(*             transform, the number of closure invocations of the call,   *)
(*             and the status of the call before it                        *)
(*   mode      "solving" while solve's root-finder is iterating            *)
(*   result    what the last solve call returned (None if it raised or     *)
(*             another call came after it)                                 *)
(***************************************************************************)
VARIABLES sys, closures, outcome, prism, arg, ret, mode, result

vars == <<sys, closures, outcome, prism, arg, ret, mode, result>>

NoRet == [status |-> "none", value |-> <<>>, fwdTag |-> "", ncalc |-> 0, prev |-> "none"]

(***************************************************************************)
(* Inputs                                                                  *)
(***************************************************************************)
KTs == {1, 2}
EpsSet == {0, 1}
Sigma == 2
OmegaKinds == {"SingleSite", "NoIntra"}

\* closure table layouts: one instance for every pair (as in the System
\* docstring example), or one instance per pair
SharedTable == [t \in Pairs |-> 1]
DistinctTable == [t \in Pairs |-> CHOOSE n \in 1..Len(iterpairs) : iterpairs[n] = t]

\* System.__init__(types, kT)
System(kT) ==
    [kT        |-> kT,
     domain    |-> None,
     diameter  |-> [i \in Idx |-> None],
     density   |-> [i \in Idx |-> None],
     potential |-> [t \in Pairs |-> None],
     closure   |-> [t \in Pairs |-> None],
     omega     |-> [t \in Pairs |-> None]]

\* a System with every entry set
FullSystem(kT, eps, table) ==
    [kT        |-> kT,
     domain    |-> Some(Domain),
     diameter  |-> [i \in Idx |-> Some(1)],
     density   |-> [i \in Idx |-> Some(i)],
     potential |-> [t \in Pairs |-> Some([epsilon |-> eps[t], sigma |-> Sigma])],
     closure   |-> [t \in Pairs |-> Some(table[t])],
     omega     |-> [t \in Pairs |-> Some(IF t[1] = t[2] THEN "SingleSite" ELSE "NoIntra")]]

TableNames == {"density", "potential", "closure", "omega", "diameter"}
Key(name, n) == IF name \in {"density", "diameter"} THEN n ELSE iterpairs[n]
\* the System s with one entry left unset ("none": with nothing left unset)
Unset(s, name, n) ==
    IF name = "none" THEN s
    ELSE IF name = "domain" THEN [s EXCEPT !.domain = None]
    ELSE [s EXCEPT ![name][Key(name, n)] = None]

Holes ==
    {<<"none", 1>>, <<"domain", 1>>}
        \cup {<<name, n>> : name \in {"density", "diameter"}, n \in Idx}
        \cup {<<name, n>> : name \in {"potential", "closure", "omega"}, n \in 1..Len(iterpairs)}

InitSystem ==
    /\ \E kT \in KTs, eps \in [Pairs -> EpsSet], table \in {SharedTable, DistinctTable},
          kinds \in [ClosureIds -> Kinds], hole \in Holes :
          /\ table = SharedTable => \A c \in ClosureIds \ {1} : kinds[c] = "Atomic"
          /\ sys = Unset(FullSystem(kT, eps, table), hole[1], hole[2])
          /\ closures = [c \in ClosureIds |-> [kind |-> kinds[c], potential |-> None]]
    /\ outcome = ""
    /\ prism = None
    /\ arg = <<>>
    /\ ret = NoRet
    /\ mode = "idle"
    /\ result = None

CreatePRISM ==
    LET res == createPRISM(sys, closures)
    IN  /\ closures' = res.heap
        /\ outcome' = res.outcome
        /\ prism' = res.prism
        /\ UNCHANGED <<sys, arg, ret, mode, result>>

NextSystem == CreatePRISM

SpecSystem == InitSystem /\ [][NextSystem]_vars

(***************************************************************************)
(* A PRISM instance constructed with the arguments __init__ requires       *)
(***************************************************************************)
\* the number densities of the two site types
Rho == <<1, 2>>
\* the potential heights of the three closure instances, and their kinds
EpsTuples == {<<0, 0, 0>>, <<0, 0, -1>>, <<1, -1, 0>>}
KindTuples ==
    {<<"Atomic", "Atomic", "Atomic">>, <<"Atomic", "Molecular", "Atomic">>,
     <<"Other", "Atomic", "Atomic">>}
XVals == {0, 1}

\* rho^pair[i,j] = rho_i * rho_j
pairDensityMatrix(rho) == [i \in Idx |-> [j \in Idx |-> RInt(rho[i] * rho[j])]]
\* rho^site[i,j] = rho_i + rho_j if i != j, rho_i if i = j
siteDensityMatrix(rho) ==
    [i \in Idx |-> [j \in Idx |-> RInt(IF i = j THEN rho[i] ELSE rho[i] + rho[j])]]

\* the intra-molecular correlation function of one pair on domain.k
omega_calculate(kind) == [n \in Grid |-> IF kind = "SingleSite" THEN ROne ELSE RZero]
\* the Omega field: every pair's function scaled by the site density
OmegaField(om, rho) ==
    [data |-> [n \in Grid |-> [i \in Idx |-> [j \in Idx |->
                  RMul(omega_calculate(om[IF i <= j THEN <<i, j>> ELSE <<j, i>>])[n],
                       siteDensityMatrix(rho)[i][j])]]],
     space |-> "Fourier"]

\* the vectors funk is called with: the same matrix M of XVals at every grid
\* point (symmetric or not)
Inputs ==
    {Flatten([n \in Grid |-> [i \in Idx |-> [j \in Idx |-> RInt(M[i][j])]]]) :
        M \in {Q \in [Idx -> [Idx -> XVals]] : Q[1][1] = Q[2][2]}}

InitPRISM ==
    /\ \E omAB \in OmegaKinds, table \in {SharedTable, DistinctTable},
          kinds \in KindTuples, e \in EpsTuples :
          /\ table = SharedTable => \A c \in ClosureIds : e[c] = 0
          /\ sys = System(1)
          /\ closures = [c \in ClosureIds |->
                [kind |-> kinds[c],
                 potential |-> Some(CurveDiv(
                     U_calculate([epsilon |-> e[c], sigma |-> Sigma]), sys.kT))]]
          /\ prism = PRISM_init(
                <<rank, Domain, table,
                  OmegaField([t \in Pairs |-> IF t[1] = t[2] THEN "SingleSite" ELSE omAB], Rho),
                  pairDensityMatrix(Rho), siteDensityMatrix(Rho), sys.kT>>)
    /\ outcome = ""
    /\ arg = <<>>
    /\ ret = NoRet
    /\ mode = "idle"
    /\ result = None

\* a call of funk(x), by the caller or by solve's root-finder
Called(x, res) ==
    /\ prism' = Some(res.prism)
    /\ arg' = x
    /\ ret' = [status |-> res.ret.status, value |-> res.ret.value,
               fwdTag |-> res.ret.fwdTag, ncalc |-> res.ret.ncalc, prev |-> ret.status]
    /\ UNCHANGED <<sys, closures, outcome>>
Call(x) == Called(x, funk(Val(prism), closures, x))

\* PRISM.funk(x), called directly
Funk ==
    /\ prism # None
    /\ mode = "idle"
    /\ \E x \in Inputs : Call(x)
    /\ mode' = "idle"
    /\ result' = None

IsZero(v) == \A f \in DOMAIN v : v[f] = RZero

\* PRISM.solve(guess): root() evaluates funk at the guess (all zeros when
\* guess is None); an exception of funk leaves solve
SolveStart ==
    /\ prism # None
    /\ mode = "idle"
    /\ \E guess \in {None} \cup {Some(x) : x \in Inputs} :
          Call(IF guess = None THEN ZeroVector ELSE Val(guess))
    /\ mode' = IF ret'.status = "ok" THEN "solving" ELSE "idle"
    /\ result' = None

\* root() evaluates funk at another point
SolveIterate ==
    /\ mode = "solving"
    /\ \E x \in Inputs : Call(x)
    /\ mode' = IF ret'.status = "ok" THEN "solving" ELSE "idle"
    /\ result' = None

\* root() returns; it reports success only for a vanishing residual
SolveReturn ==
    /\ mode = "solving"
    /\ mode' = "idle"
    /\ result' = Some([success |-> IsZero(ret.value), x |-> arg, fun |-> ret.value])
    /\ UNCHANGED <<sys, closures, outcome, prism, arg, ret>>

NextPRISM == Funk \/ SolveStart \/ SolveIterate \/ SolveReturn

SpecPRISM == InitPRISM /\ [][NextPRISM]_vars

(***************************************************************************)
(* Properties of System.createPRISM (checked under SpecSystem)             *)
(***************************************************************************)
P == Val(prism)
ClosureOf(t) == closures[Val(sys.closure[t])]
Called_createPRISM == outcome # ""

\* every density, diameter, potential, closure and omega entry set, a domain
\* assigned, and every closure an AtomicClosure
FullyAtomic == ~check(sys) /\ \A t \in Pairs : ClosureOf(t).kind = "Atomic"

\* C1: createPRISM, called on a fully specified System whose closures are all
\* AtomicClosures, returns a PRISM instance without raising.
C1_createPRISM_returns ==
    (Called_createPRISM /\ FullyAtomic) => (outcome = "returned" /\ prism # None)

\* some density, potential, closure or omega entry is unset or the domain is None
Incomplete ==
    \/ \E name \in {"density", "potential", "closure", "omega"} : TableUnset(sys[name])
    \/ sys.domain = None

\* C2: on a System with an unset density, potential, closure or omega entry or
\* without a domain, createPRISM raises ValueError before anything else: no
\* closure's potential has been written and no PRISM has been constructed.
C2_check_first ==
    (Called_createPRISM /\ Incomplete) =>
        /\ outcome = "ValueError"
        /\ \A c \in ClosureIds : closures[c].potential = None
        /\ prism = None

C2_witness ==
    /\ outcome = "ValueError"
    /\ TableUnset(sys.omega)
    /\ ~TableUnset(sys.potential) /\ ~TableUnset(sys.closure)

\* C3: once the potential pass of createPRISM has run over all pairs, the
\* potential stored on the closure of every pair with an AtomicClosure is that
\* pair's own potential on domain.r divided by kT.
C3_own_potential ==
    outcome \in {"TypeError", "returned"} =>
        \A t \in Pairs :
            ClosureOf(t).kind = "Atomic" =>
                ClosureOf(t).potential =
                    Some(CurveDiv(U_calculate(Val(sys.potential[t])), sys.kT))

(***************************************************************************)
(* Properties of PRISM.funk and PRISM.solve (checked under SpecPRISM)      *)
(***************************************************************************)
Unrecognized(c) == c.kind \notin {"Atomic", "Molecular"}
Started_funk == ret.status # "none"
Symmetric(m) == \A n \in Grid, i \in Idx, j \in Idx : m.data[n][i][j] = m.data[n][j][i]

\* C4: a closure that is neither Atomic nor Molecular is rejected before any
\* solve attempt: createPRISM returns no PRISM for such a system, and no funk
\* call is ever started with such a closure in the instance's table.
C4_unrecognized_rejected ==
    /\ outcome = "returned" => \A t \in Pairs : ~Unrecognized(ClosureOf(t))
    /\ (prism # None /\ Started_funk) =>
          \A t \in Pairs : ~Unrecognized(closures[P.closure[t]])

\* C5: after solve has returned a converged outcome, pairCorr equals
\* totalCorr + 1 for every pair at every grid point.
C5_pairCorr_is_totalCorr_plus_1 ==
    (result # None /\ Val(result).success) =>
        \A n \in Grid, i \in Idx, j \in Idx :
            P.pairCorr.data[n][i][j] = RAdd(P.totalCorr.data[n][i][j], ROne)

\* the ideal limit: every closure of the table is a recognized one with an
\* all-zero potential (the densities of the model are positive)
Ideal ==
    \A t \in Pairs :
        /\ ~Unrecognized(closures[P.closure[t]])
        /\ closures[P.closure[t]].potential = Some([n \in Grid |-> RZero])
IdealAtZero == prism # None /\ Ideal /\ ret.status = "ok" /\ arg = ZeroVector

\* C6 as claimed: in the ideal limit, funk at the all-zero x returns an all-zero
\* residual and leaves directCorr zero and totalCorr equal to the Omega field.
C6_ideal_totalCorr_is_omega ==
    IdealAtZero =>
        /\ IsZero(ret.value)
        /\ P.directCorr.data = ZeroData
        /\ P.totalCorr.data = P.omega.data

\* C6 as amended: in the ideal limit, funk at the all-zero x returns an all-zero
\* residual and leaves directCorr and totalCorr identically zero.
C6_ideal_totalCorr_is_zero ==
    IdealAtZero =>
        /\ IsZero(ret.value)
        /\ P.directCorr.data = ZeroData
        /\ P.totalCorr.data = ZeroData

C6_witness == IdealAtZero /\ P.omega.data[1][1][2] # RZero

\* C7: after every funk call that returns, directCorr and totalCorr are
\* symmetric at every grid point, and the closure was invoked once per
\* unordered pair.
C7_symmetric ==
    (prism # None /\ ret.status = "ok") =>
        /\ Symmetric(P.directCorr)
        /\ Symmetric(P.totalCorr)
        /\ ret.ncalc = Cardinality(Pairs)

C7_witness ==
    /\ prism # None /\ ret.status = "ok"
    /\ Reshape(arg)[1][1][2] # Reshape(arg)[1][2][1]
    /\ P.totalCorr.data[1][1][2] # RZero
    /\ P.totalCorr.data[1][1][1] # P.totalCorr.data[1][2][2]

\* the closure's value for pair t on the instance's GammaIn
ClosureValue(p, t) ==
    IF closures[p.closure[t]].kind = "Atomic"
    THEN Atomic_calculate(closures[p.closure[t]], GetCurve(p.GammaIn, t[1], t[2]))
    ELSE Molecular_calculate(closures[p.closure[t]], GetCurve(p.GammaIn, t[1], t[2]),
             GetCurve(p.omega, t[1], t[1]), GetCurve(p.omega, t[2], t[2]))

\* x, GammaIn, directCorr, OC and IOC of instance q are those of a call funk(x)
\* that got as far as the inversion
HoldsValuesOf(q, x) ==
    /\ q.x = x
    /\ q.GammaIn.data = [n \in Grid |-> [i \in Idx |-> [j \in Idx |->
                             RDiv(Reshape(x)[n][i][j], domain_r(n))]]]
    /\ \A t \in Pairs : to_real(GetCurve(q.directCorr, t[1], t[2])) = ClosureValue(q, t)
    /\ q.OC = MatMul(q.omega, q.directCorr)
    /\ q.IOC = Some(MatSub(q.I, q.OC))
\* totalCorr, GammaOut and y of instance q are still those of instance p
KeepsResultsOf(q, p) ==
    /\ q.totalCorr = p.totalCorr
    /\ q.GammaOut = p.GammaOut
    /\ q.y = p.y

\* C8 as claimed: when the inversion of I - OC fails, the error leaves funk and
\* solve, no residual is returned, and the instance is not left holding the
\* failing call's x, GammaIn, directCorr and OC beside an earlier call's
\* totalCorr, GammaOut and y.
C8_abort_leaves_no_mixture ==
    [][(ret.status = "ok" /\ ret'.status = "LinAlgError") =>
          /\ ret'.value = <<>>
          /\ mode' = "idle" /\ result' = None
          /\ ~(HoldsValuesOf(Val(prism'), arg') /\ KeepsResultsOf(Val(prism'), P))]_vars

\* What funk does when the inversion of I - OC fails: the error leaves funk and
\* solve and no residual is returned, but the instance is left holding the
\* failing call's x, GammaIn, directCorr, OC and (uninverted) IOC beside the
\* totalCorr, GammaOut and y it held before the call.
C8_abort_leaves_partial_state ==
    [][ret'.status = "LinAlgError" =>
          /\ ret'.value = <<>>
          /\ mode' = "idle" /\ result' = None
          /\ HoldsValuesOf(Val(prism'), arg')
          /\ Singular(Val(Val(prism').IOC))
          /\ KeepsResultsOf(Val(prism'), P)]_vars

C8_witness ==
    /\ prism # None /\ ret.status = "LinAlgError" /\ ret.prev = "ok"
    /\ P.x = arg
    /\ ~IsZero(P.y)

\* C9: in every funk call that reaches the forward transform, directCorr is
\* tagged Real there (so the transform's precondition holds), whatever calls
\* came before; when a call returns, directCorr and totalCorr are tagged
\* Fourier and GammaIn and GammaOut are tagged Real.
C9_space_tags ==
    prism # None =>
        /\ ret.status # "SpaceError"
        /\ ret.status \in {"ok", "LinAlgError"} => ret.fwdTag = "Real"
        /\ ret.status = "ok" =>
              /\ P.directCorr.space = "Fourier"
              /\ P.totalCorr.space = "Fourier"
              /\ P.GammaIn.space = "Real"
              /\ P.GammaOut.space = "Real"

C9_witness == prism # None /\ ret.status = "ok" /\ ret.prev = "LinAlgError"

\* a freshly constructed instance with the same inputs as p
FreshOf(p) ==
    Val(PRISM_init(<<p.rank, p.domain, p.closure, p.omega,
                     p.pairDensityMatrix, p.siteDensityMatrix, p.kT>>))

\* C10: a funk call that returns, after any earlier calls on the instance,
\* returns the residual that funk returns for the same x on a freshly
\* constructed instance with the same inputs; the vector passed is not
\* modified, and omega and the density matrices are never written.
C10_stateless ==
    /\ [](prism # None =>
            /\ Started_funk => P.x = arg
            /\ ret.status = "ok" => ret.value = funk(FreshOf(P), closures, arg).ret.value)
    /\ [][prism # None =>
            /\ Val(prism').omega = P.omega
            /\ Val(prism').pairDensityMatrix = P.pairDensityMatrix
            /\ Val(prism').siteDensityMatrix = P.siteDensityMatrix]_vars

C10_witness ==
    /\ prism # None /\ ret.status = "ok" /\ ret.prev \in {"ok", "LinAlgError"}
    /\ ~IsZero(ret.value)
    /\ arg # ZeroVector
=============================================================================
